---- MODULE Spec2Model ----
(***************************************************************************)
(* A model of the Gmail Analytics backend: the token store and the HTTP    *)
(* endpoints of backend/main.py and the GmailAnalytics mailbox client of   *)
(* backend/utils/gmail_utils.py.                                           *)
(*                                                                         *)
(* Text.  A Python str is a sequence of lexemes, each a TLA+ string: one   *)
(* character, or (in Date headers) a weekday or month name, which the      *)
(* strptime pattern consumes as a unit.  The empty str is << >>.           *)
(*                                                                         *)
(* Remote services (the OAuth provider, the Gmail API) are the             *)
(* environment: each call's outcome is an input of the action making it.   *)
(*                                                                         *)
(* Scheduling.  Every endpoint and the get_credentials dependency is an    *)
(* "async def" without a single await: all remote calls are blocking.  A   *)
(* coroutine can only be suspended at an await, so on the event loop each  *)
(* request runs from its dependency to its response without another        *)
(* request's code in between.  Requests interleave as wholes.              *)
(***************************************************************************)
EXTENDS Integers, Sequences, FiniteSets, TLC

VARIABLES
    tokens,     \* main.py `tokens`: the dict holding the stored token_data
    issued,     \* provider: the credentials granted by successful exchanges, in order
    nRefresh,   \* provider: how many access tokens it minted by refresh
    mailbox,    \* Gmail: what the remote mailbox answers to the current call
    depends,    \* what Depends(get_credentials) produced for the last request
    response,   \* the last HTTP response
    outbox,     \* Gmail: raw messages submitted to messages.send by the last call
    result      \* the last return (or raise) of a GmailAnalytics method

vars == <<tokens, issued, nRefresh, mailbox, depends, response, outbox, result>>

(***************************************************************************)
(* Bounds of the model.                                                    *)
(***************************************************************************)
MaxMsgs == 2          \* enumerated mailboxes hold at most this many messages
MaxSubjectLen == 4    \* enumerated subjects have at most this many characters
MaxExchanges == 2     \* successful code exchanges
MaxRefreshes == 2     \* successful token refreshes

(***************************************************************************)
(* Python values.                                                          *)
(***************************************************************************)
None == <<"<None>">>

\* `if x:` / `not x` on an Optional[str]
Truthy(s) == s # None /\ s # << >>

Min(a, b) == IF a < b THEN a ELSE b

SetMax(S) == CHOOSE m \in S : \A k \in S : k <= m

\* An insertion-ordered dict: a sequence of [k, v] without repeated keys.
DictKeys(d) == {d[i].k : i \in 1..Len(d)}

DictGet(d, key, default) ==
    IF key \in DictKeys(d)
    THEN d[CHOOSE i \in 1..Len(d) : d[i].k = key].v
    ELSE default

\* d[key] = value
DictSet(d, key, value) ==
    IF key \in DictKeys(d)
    THEN [i \in 1..Len(d) |-> IF d[i].k = key THEN [k |-> key, v |-> value] ELSE d[i]]
    ELSE Append(d, [k |-> key, v |-> value])

RECURSIVE DictSum(_)
DictSum(d) == IF d = << >> THEN 0 ELSE Head(d).v + DictSum(Tail(d))

(***************************************************************************)
(* datetime.strptime(date, '%a, %d %b %Y %H:%M:%S %z').hour                *)
(* The pattern compiles to a regular expression matched at the start of    *)
(* the text; text left over after the match, a field out of the range the  *)
(* expression admits, and a value datetime() refuses all raise ValueError. *)
(***************************************************************************)
DigitChars == {"0", "1", "2", "3", "4", "5", "6", "7", "8", "9"}

DigitVal(c) ==
    CASE c = "0" -> 0 [] c = "1" -> 1 [] c = "2" -> 2 [] c = "3" -> 3 [] c = "4" -> 4
      [] c = "5" -> 5 [] c = "6" -> 6 [] c = "7" -> 7 [] c = "8" -> 8 [] c = "9" -> 9

WeekdayNames == {"Mon", "Tue", "Wed", "Thu", "Fri", "Sat", "Sun"}

MonthNames == <<"Jan", "Feb", "Mar", "Apr", "May", "Jun",
                "Jul", "Aug", "Sep", "Oct", "Nov", "Dec">>

MonthNumber(name) == CHOOSE m \in 1..12 : MonthNames[m] = name

IsLeap(y) == (y % 4 = 0 /\ y % 100 # 0) \/ y % 400 = 0

DaysInMonth(y, m) ==
    IF m = 2 THEN (IF IsLeap(y) THEN 29 ELSE 28)
    ELSE IF m \in {4, 6, 9, 11} THEN 30 ELSE 31

\* the lexeme at position i, "" past the end
At(s, i) == IF i >= 1 /\ i <= Len(s) THEN s[i] ELSE ""

IsDigitAt(s, i) == At(s, i) \in DigitChars

NoMatch == [ok |-> FALSE, val |-> 0, next |-> 0]

\* \s+ : one or more blanks from i; the position after them, 0 when none
RECURSIVE SkipBlanks(_, _)
SkipBlanks(s, i) == IF At(s, i) = " " THEN SkipBlanks(s, i + 1) ELSE i

Blanks(s, i) == IF At(s, i) = " " THEN SkipBlanks(s, i) ELSE 0

\* A one- or two-digit field: the two-digit alternatives (lo2..hi2) are tried
\* first, then the one-digit alternative (lo1..9).
Num12(s, i, lo2, hi2, lo1) ==
    LET two == 10 * DigitVal(At(s, i)) + DigitVal(At(s, i + 1))
        one == DigitVal(At(s, i))
    IN  IF IsDigitAt(s, i) /\ IsDigitAt(s, i + 1) /\ two >= lo2 /\ two <= hi2
        THEN [ok |-> TRUE, val |-> two, next |-> i + 2]
        ELSE IF IsDigitAt(s, i) /\ one >= lo1
        THEN [ok |-> TRUE, val |-> one, next |-> i + 1]
        ELSE NoMatch

\* %Y : \d\d\d\d
Year4(s, i) ==
    IF \A k \in 0..3 : IsDigitAt(s, i + k)
    THEN [ok |-> TRUE,
          val |-> 1000 * DigitVal(s[i]) + 100 * DigitVal(s[i + 1])
                  + 10 * DigitVal(s[i + 2]) + DigitVal(s[i + 3]),
          next |-> i + 4]
    ELSE NoMatch

\* [0-5]\d
Sixty(s, i) ==
    IF IsDigitAt(s, i) /\ IsDigitAt(s, i + 1) /\ DigitVal(At(s, i)) <= 5
    THEN [ok |-> TRUE, val |-> 10 * DigitVal(s[i]) + DigitVal(s[i + 1]), next |-> i + 2]
    ELSE NoMatch

\* %z : [+-]\d\d:?[0-5]\d(:?[0-5]\d)? | Z ; val is the offset in seconds
Zone(s, i) ==
    IF At(s, i) = "Z" THEN [ok |-> TRUE, val |-> 0, next |-> i + 1]
    ELSE IF At(s, i) \in {"+", "-"} /\ IsDigitAt(s, i + 1) /\ IsDigitAt(s, i + 2)
    THEN LET mm == Sixty(s, IF At(s, i + 3) = ":" THEN i + 4 ELSE i + 3)
             ss == IF mm.ok
                   THEN Sixty(s, IF At(s, mm.next) = ":" THEN mm.next + 1 ELSE mm.next)
                   ELSE NoMatch
             secs == (10 * DigitVal(s[i + 1]) + DigitVal(s[i + 2])) * 3600 + mm.val * 60
                     + (IF ss.ok THEN ss.val ELSE 0)
         IN  IF ~mm.ok THEN NoMatch
             ELSE [ok |-> TRUE,
                   val |-> IF s[i] = "-" THEN 0 - secs ELSE secs,
                   next |-> IF ss.ok THEN ss.next ELSE mm.next]
    ELSE NoMatch

\* %b
MonthAt(s, i) ==
    IF \E m \in 1..12 : MonthNames[m] = At(s, i)
    THEN [ok |-> TRUE, val |-> MonthNumber(At(s, i)), next |-> i + 1]
    ELSE NoMatch

\* '%a, %d %b %Y %H:%M:%S %z', a directive or a literal at a time; each run of
\* whitespace in a format stands for \s+
Format == <<"%a", ",", " ", "%d", " ", "%b", " ", "%Y", " ",
            "%H", ":", "%M", ":", "%S", " ", "%z">>

MatchStart ==
    [ok |-> TRUE, pos |-> 1, d |-> 0, b |-> 0, Y |-> 0, H |-> 0, M |-> 0, S |-> 0, z |-> 0]

\* the match so far, st, extended by a field matched (or not) as m
Group(st, name, m) ==
    IF m.ok THEN [st EXCEPT ![name] = m.val, !.pos = m.next] ELSE [st EXCEPT !.ok = FALSE]

\* one element of the format matched against s at st.pos
Directive(e, s, st) ==
    CASE e = "%a" -> IF At(s, st.pos) \in WeekdayNames
                     THEN [st EXCEPT !.pos = @ + 1] ELSE [st EXCEPT !.ok = FALSE]
      [] e = " "  -> IF Blanks(s, st.pos) # 0
                     THEN [st EXCEPT !.pos = Blanks(s, st.pos)] ELSE [st EXCEPT !.ok = FALSE]
      [] e = "%d" -> Group(st, "d", Num12(s, st.pos, 1, 31, 1))
      [] e = "%b" -> Group(st, "b", MonthAt(s, st.pos))
      [] e = "%Y" -> Group(st, "Y", Year4(s, st.pos))
      [] e = "%H" -> Group(st, "H", Num12(s, st.pos, 0, 23, 0))
      [] e = "%M" -> Group(st, "M", Num12(s, st.pos, 0, 59, 0))
      [] e = "%S" -> Group(st, "S", Num12(s, st.pos, 0, 61, 0))
      [] e = "%z" -> Group(st, "z", Zone(s, st.pos))
      [] OTHER    -> IF At(s, st.pos) = e
                     THEN [st EXCEPT !.pos = @ + 1] ELSE [st EXCEPT !.ok = FALSE]

\* the format from its k-th element on, the match so far being st
\* (CHOOSE r \in {F(v) : v \in {e}} : TRUE is F(e), with e evaluated once.)
RECURSIVE Match(_, _, _)
Match(s, k, st) ==
    IF k > Len(Format) \/ ~st.ok THEN st
    ELSE CHOOSE r \in {Match(s, k + 1, next) : next \in {Directive(Format[k], s, st)}} : TRUE

ValueError == [ok |-> FALSE, hour |-> 0 - 1]

\* the datetime built from a match m of the whole of s, reduced to its hour
DateTime(s, m) ==
    IF ~m.ok THEN ValueError                            \* does not match format
    ELSE IF m.pos # Len(s) + 1 THEN ValueError          \* unconverted data remains
    ELSE IF m.Y < 1 THEN ValueError                     \* year out of range
    ELSE IF m.d > DaysInMonth(m.Y, m.b) THEN ValueError \* day out of range for month
    ELSE IF m.S > 59 THEN ValueError                    \* second must be in 0..59
    ELSE IF m.z <= 0 - 86400 \/ m.z >= 86400 THEN ValueError   \* timezone() refuses
    ELSE [ok |-> TRUE, hour |-> m.H]

strptime(s) == CHOOSE r \in {DateTime(s, m) : m \in {Match(s, 1, MatchStart)}} : TRUE

(***************************************************************************)
(* GmailAnalytics.get_email_metrics                                        *)
(***************************************************************************)
MaxResults == 500

\* users().messages().list(q=query, maxResults=n).execute().get('messages', []):
\* one page, at most n of the matching messages.
ListMessages(mb, n) == SubSeq(mb.messages, 1, Min(Len(mb.messages), n))

EmptyMetrics(n) ==
    [total_emails |-> n,
     senders |-> << >>,
     subjects |-> << >>,
     time_distribution |-> << >>,
     email_size_distribution |-> [small |-> 0, medium |-> 0, large |-> 0]]

\* for header in headers: if/elif on header['name']
RECURSIVE ScanHeaders(_, _, _)
ScanHeaders(headers, i, acc) ==
    IF i > Len(headers) THEN acc
    ELSE ScanHeaders(headers, i + 1,
             IF headers[i].name = "From" THEN [acc EXCEPT !.sender = headers[i].value]
             ELSE IF headers[i].name = "Subject" THEN [acc EXCEPT !.subject = headers[i].value]
             ELSE IF headers[i].name = "Date" THEN [acc EXCEPT !.date = headers[i].value]
             ELSE acc)

SizeBucket(size) ==
    IF size < 1024 * 1024 THEN "small"
    ELSE IF size < 5 * 1024 * 1024 THEN "medium"
    ELSE "large"

\* msg.get('sizeEstimate', 0)
SizeOf(msg) == IF msg.hasSize THEN msg.sizeEstimate ELSE 0

\* metrics[key][k] = metrics[key].get(k, 0) + 1
Count(dict, k) == DictSet(dict, k, DictGet(dict, k, 0) + 1)

\* if date: try: hour = strptime(...).hour; ... except ValueError: pass
\* CountHour with an unparsable date counted under hour 0
CountHourDefaultZero(dict, date) ==
    CHOOSE r \in {IF ~Truthy(d) THEN dict
                  ELSE IF strptime(d).ok THEN Count(dict, strptime(d).hour)
                  ELSE Count(dict, 0) : d \in {date}} : TRUE

CountHour(dict, date) ==
    CHOOSE r \in {IF Truthy(d) /\ strptime(d).ok THEN Count(dict, strptime(d).hour) ELSE dict :
                     d \in {date}} : TRUE

\* one pass of the loop body over a fetched message whose headers were scanned into h
AddScanned(metrics, h, size) ==
    [metrics EXCEPT
        !.senders = IF Truthy(h.sender) THEN Count(@, h.sender) ELSE @,
        !.subjects = IF Truthy(h.subject) THEN Count(@, h.subject) ELSE @,
        !.time_distribution = CountHour(@, h.date),
        !.email_size_distribution[SizeBucket(size)] = @ + 1]

AddMessage(metrics, msg) ==
    AddScanned(metrics,
               ScanHeaders(msg.headers, 1, [sender |-> None, subject |-> None, date |-> None]),
               SizeOf(msg))

\* messages().get(...).execute() raised, or msg['payload']['headers'] is missing
FetchRaises(msg) == msg.fetch # "ok" \/ ~msg.hasHeaders

Raised(text) == [ok |-> FALSE, error |-> text]

Returned(value) == [ok |-> TRUE, value |-> value]

\* LoopBody leaving out a message whose fetch raises
LoopBodySkipping(acc, msg) ==
    IF ~acc.ok THEN acc
    ELSE IF FetchRaises(msg) THEN acc
    ELSE Returned(AddMessage(acc.value, msg))

\* The loop body for one message id, entered with acc: the metrics so far, or the
\* exception already raised.
LoopBody(acc, msg) ==
    IF ~acc.ok THEN acc
    ELSE IF FetchRaises(msg) THEN Raised("Error fetching email metrics")
    ELSE Returned(AddMessage(acc.value, msg))

\* `for message in messages:` over messages[lo..hi].  A range of several messages is
\* walked as its first half and then its second half: the same walk, in the same
\* order, without nesting the evaluation as deep as the mailbox is long.
RECURSIVE MetricsLoop(_, _, _, _)
MetricsLoop(acc, messages, lo, hi) ==
    IF lo > hi THEN acc
    ELSE IF lo = hi
    THEN CHOOSE r \in {LoopBody(a, msg) : a \in {acc}, msg \in {messages[lo]}} : TRUE
    ELSE CHOOSE r \in {MetricsLoop(a, messages, (lo + hi) \div 2 + 1, hi) :
                       a \in {MetricsLoop(acc, messages, lo, (lo + hi) \div 2)}} : TRUE

\* the loop over all of messages
MetricsOf(messages) ==
    MetricsLoop(Returned(EmptyMetrics(Len(messages))), messages, 1, Len(messages))

get_email_metrics(mb) ==
    IF ~mb.listOk THEN Raised("Error fetching email metrics")
    ELSE CHOOSE r \in {MetricsOf(messages) : messages \in {ListMessages(mb, MaxResults)}} : TRUE

(***************************************************************************)
(* GmailAnalytics.get_top_senders, get_time_distribution                   *)
(***************************************************************************)
TopN == 10

\* sorted(items, key=lambda x: x[1], reverse=True): by count, largest first; the sort
\* is stable, so items of equal count keep the order the dict yields them in.  The
\* place of items[i] is one more than the number of items that go before it.
SortedPlace(items, i) ==
    1 + Cardinality({j \in 1..Len(items) :
                        items[j].v > items[i].v \/ (items[j].v = items[i].v /\ j < i)})

\* SortedDesc without the sort: the dict's own order
SortedDescUnsorted(items) == items

SortedDesc(items) ==
    [p \in 1..Len(items) |-> items[CHOOSE i \in 1..Len(items) : SortedPlace(items, i) = p]]

\* the first TopN of the sorted items, as {'sender', 'count'} entries
TopEntries(s) == [i \in 1..Min(Len(s), TopN) |-> [sender |-> s[i].k, count |-> s[i].v]]

get_top_senders(mb) ==
    CHOOSE r \in {IF ~m.ok THEN m ELSE Returned(TopEntries(SortedDesc(m.value.senders))) :
                     m \in {get_email_metrics(mb)}} : TRUE

get_time_distribution(mb) ==
    CHOOSE r \in {IF ~m.ok THEN m ELSE Returned(m.value.time_distribution) :
                     m \in {get_email_metrics(mb)}} : TRUE

(***************************************************************************)
(* Inputs: header values, messages and mailboxes.                          *)
(***************************************************************************)
SeqsUpTo(S, n) == UNION {[1..k -> S] : k \in 0..n}

Header(name, value) == [name |-> name, value |-> value]

\* what messages().get(format='metadata') answers for one message id
Msg(headers, size) ==
    [fetch |-> "ok", hasHeaders |-> TRUE, headers |-> headers,
     hasSize |-> TRUE, sizeEstimate |-> size]

MsgNoSize(headers) == [Msg(headers, 0) EXCEPT !.hasSize = FALSE]

MsgNoHeaders == [Msg(<< >>, 0) EXCEPT !.hasHeaders = FALSE]

MsgHttpError == [Msg(<< >>, 0) EXCEPT !.fetch = "HttpError"]

MkDate(wd, d, mon, y, hms, tz) ==
    wd \o <<",", " ">> \o d \o <<" ">> \o mon \o <<" ">> \o y \o <<" ">> \o hms \o <<" ">> \o tz

Y2026 == <<"2", "0", "2", "6">>

Utc == <<"+", "0", "0", "0", "0">>

T0713 == <<"0", "7", ":", "1", "3", ":", "0", "0">>

\* "Mon, 02 Nov 2026 00:05:09 +0000"
DateMidnight ==
    MkDate(<<"Mon">>, <<"0", "2">>, <<"Nov">>, Y2026,
           <<"0", "0", ":", "0", "5", ":", "0", "9">>, Utc)

\* "Tue, 3 Nov 2026 7:13:00 -0800"
DateOneDigit ==
    MkDate(<<"Tue">>, <<"3">>, <<"Nov">>, Y2026,
           <<"7", ":", "1", "3", ":", "0", "0">>, <<"-", "0", "8", "0", "0">>)

\* "Tue, 03 Nov 2026 23:59:59 +05:30"
DateLate ==
    MkDate(<<"Tue">>, <<"0", "3">>, <<"Nov">>, Y2026,
           <<"2", "3", ":", "5", "9", ":", "5", "9">>, <<"+", "0", "5", ":", "3", "0">>)

\* "Tue, 03 Nov 2026 24:00:00 +0000"
DateHour24 ==
    MkDate(<<"Tue">>, <<"0", "3">>, <<"Nov">>, Y2026,
           <<"2", "4", ":", "0", "0", ":", "0", "0">>, Utc)

\* "Tue, 03 Nov 2026 07:13:00 +0000 (UTC)"
DateComment ==
    MkDate(<<"Tue">>, <<"0", "3">>, <<"Nov">>, Y2026, T0713, Utc)
        \o <<" ", "(", "U", "T", "C", ")">>

\* "3 Nov 2026 07:13:00 +0000"
DateNoWeekday ==
    <<"3", " ", "Nov", " ">> \o Y2026 \o <<" ">> \o T0713 \o <<" ">> \o Utc

\* "Tue, 03 Nov 2026 07:13:00 GMT"
DateGMT == MkDate(<<"Tue">>, <<"0", "3">>, <<"Nov">>, Y2026, T0713, <<"G", "M", "T">>)

\* "Mon, 30 Feb 2026 07:13:00 +0000"
DateFeb30 == MkDate(<<"Mon">>, <<"3", "0">>, <<"Feb">>, Y2026, T0713, Utc)

\* "Thu, 31 Dec 2026 23:59:60 +0000"
DateLeapSecond ==
    MkDate(<<"Thu">>, <<"3", "1">>, <<"Dec">>, Y2026,
           <<"2", "3", ":", "5", "9", ":", "6", "0">>, Utc)

PatternDates == {DateMidnight, DateOneDigit, DateLate}

OtherDates ==
    {DateHour24, DateComment, DateNoWeekday, DateGMT, DateFeb30, DateLeapSecond, << >>}

SenderA == <<"a">>

SenderB == <<"b">>

SubjectS == <<"s">>

BoundarySizes == {0, 1048575, 1048576, 5242879, 5242880, 5242881}

PlainMsg(sender, date, size) ==
    Msg(<<Header("From", sender), Header("To", <<"m", "e">>),
          Header("Subject", SubjectS), Header("Date", date)>>, size)

MessageKinds ==
    {PlainMsg(s, DateOneDigit, 100) : s \in {SenderA, SenderB, << >>}}
    \cup {PlainMsg(SenderA, d, 100) : d \in PatternDates \cup OtherDates}
    \cup {PlainMsg(SenderA, DateLate, z) : z \in BoundarySizes}
    \cup {Msg(<<Header("Subject", SubjectS)>>, 100),
          Msg(<<Header("From", SenderA), Header("From", SenderB)>>, 100),
          MsgNoSize(<<Header("From", SenderB), Header("Date", DateMidnight)>>),
          MsgNoHeaders, MsgHttpError}

ListFails == [listOk |-> FALSE, messages |-> << >>]

Mailbox(messages) == [listOk |-> TRUE, messages |-> messages]

\* more matching messages than one page holds
FullMailbox ==
    Mailbox([i \in 1..(MaxResults + 1) |->
                PlainMsg(SenderA, IF i = 1 THEN DateComment ELSE DateLate, 100)])

NumberedSender(i) == <<"s", ToString(i)>>

\* TopN + 2 senders: the first two send once, the last three times, the others twice
ManySenders ==
    Mailbox([i \in 1..(TopN + 2) |-> PlainMsg(NumberedSender(i), DateMidnight, 100)]
            \o [i \in 1..TopN |-> PlainMsg(NumberedSender(i + 2), DateLate, 100)]
            \o <<PlainMsg(NumberedSender(TopN + 2), DateLate, 100)>>)

MetricsMailboxes ==
    {ListFails, FullMailbox, ManySenders}
    \cup {Mailbox(ms) : ms \in SeqsUpTo(MessageKinds, MaxMsgs)}

(***************************************************************************)
(* The state outside a request.                                            *)
(***************************************************************************)
NoTokens == [k \in {} |-> None]

NoDepends == [called |-> FALSE]

NoResponse == [endpoint |-> "none", status |-> 0]

NoResult == [op |-> "none"]

FacadeIdle ==
    /\ tokens = NoTokens
    /\ issued = << >>
    /\ nRefresh = 0
    /\ depends = NoDepends
    /\ response = NoResponse

(***************************************************************************)
(* The mailbox client's read operations, each applied to a mailbox.  A      *)
(* client is built for one request and makes one call (main.py 172-173).   *)
(***************************************************************************)
InitMetrics ==
    /\ FacadeIdle
    /\ mailbox \in MetricsMailboxes
    /\ outbox = << >>
    /\ result = NoResult

CallGetEmailMetrics ==
    /\ result = NoResult
    /\ result' = [op |-> "get_email_metrics", ret |-> get_email_metrics(mailbox)]
    /\ UNCHANGED <<tokens, issued, nRefresh, mailbox, depends, response, outbox>>

CallGetTopSenders ==
    /\ result = NoResult
    /\ result' = [op |-> "get_top_senders", ret |-> get_top_senders(mailbox)]
    /\ UNCHANGED <<tokens, issued, nRefresh, mailbox, depends, response, outbox>>

CallGetTimeDistribution ==
    /\ result = NoResult
    /\ result' = [op |-> "get_time_distribution", ret |-> get_time_distribution(mailbox)]
    /\ UNCHANGED <<tokens, issued, nRefresh, mailbox, depends, response, outbox>>

NextMetrics == CallGetEmailMetrics \/ CallGetTopSenders \/ CallGetTimeDistribution

SpecMetrics == InitMetrics /\ [][NextMetrics]_vars

(***************************************************************************)
(* Claims about get_email_metrics and get_top_senders (SpecMetrics).       *)
(***************************************************************************)
MetricsReturned == result.op = "get_email_metrics" /\ result.ret.ok

\* the message ids the single list call returned
Listed == ListMessages(mailbox, MaxResults)

DateOf(msg) == ScanHeaders(msg.headers, 1, [sender |-> None, subject |-> None, date |-> None]).date

\* what the Date header of each listed message parses to
ParsedDates ==
    [i \in DOMAIN Listed |->
        IF Truthy(DateOf(Listed[i])) THEN strptime(DateOf(Listed[i])) ELSE ValueError]

\* C5: every successful get_email_metrics run counts each listed message in exactly
\* one size bucket: small below 1,048,576, medium from 1,048,576 up to and including
\* 5,242,880, large above 5,242,880.
C5_SizePartition ==
    MetricsReturned =>
        LET dist == result.ret.value.email_size_distribution
        IN  /\ dist.small + dist.medium + dist.large = result.ret.value.total_emails
            /\ dist.small = Cardinality({i \in DOMAIN Listed : SizeOf(Listed[i]) < 1048576})
            /\ dist.medium = Cardinality({i \in DOMAIN Listed :
                                 SizeOf(Listed[i]) >= 1048576 /\ SizeOf(Listed[i]) <= 5242880})
            /\ dist.large = Cardinality({i \in DOMAIN Listed : SizeOf(Listed[i]) > 5242880})

\* C6: every successful get_email_metrics run reports as total_emails the number of
\* ids the list call returned (at most 500); the keys of time_distribution are hours
\* 0..23; each hour counts the listed messages whose Date parses to it, so a message
\* with a missing or unparsable Date is in total_emails and not in time_distribution.
C6_TotalAndTimeDistribution ==
    MetricsReturned =>
        LET m == result.ret.value
            td == result.ret.value.time_distribution
            parsed == ParsedDates
            hours == {i \in DOMAIN parsed : parsed[i].ok}
        IN  /\ m.total_emails = Len(Listed)
            /\ Len(Listed) = Min(Len(mailbox.messages), 500)
            /\ DictKeys(td) \subseteq 0..23
            /\ Cardinality(DictKeys(td)) = Len(td)
            /\ \A h \in 0..23 :
                   DictGet(td, h, 0) = Cardinality({i \in hours : parsed[i].hour = h})
            /\ DictSum(td) = Cardinality(hours)
            /\ DictSum(td) <= m.total_emails
            /\ \A i \in DOMAIN Listed :
                   DateOf(Listed[i]) \in OtherDates \cup {None} => i \notin hours

\* a full page was returned, cut from a longer mailbox, with an unparsable Date in it
C6_Witness ==
    /\ MetricsReturned
    /\ Len(mailbox.messages) > 500
    /\ result.ret.value.total_emails = 500
    /\ DateOf(Listed[1]) = DateComment
    /\ DictSum(result.ret.value.time_distribution) = 499

\* C10: get_top_senders returns at most 10 entries, in non-increasing order of count,
\* each a sender of the metrics report with its count, and no sender left out has a
\* count above that of a sender returned.
C10_TopSenders ==
    (result.op = "get_top_senders" /\ result.ret.ok) =>
        LET top == result.ret.value
            senders == get_email_metrics(mailbox).value.senders
            returned == {top[i].sender : i \in DOMAIN top}
        IN  /\ Len(top) <= 10
            /\ \A i \in DOMAIN top : \A j \in DOMAIN top : i < j => top[i].count >= top[j].count
            /\ \A i \in DOMAIN top :
                   /\ top[i].sender \in DictKeys(senders)
                   /\ top[i].count = DictGet(senders, top[i].sender, 0)
            /\ \A k \in DictKeys(senders) \ returned :
                   \A i \in DOMAIN top : DictGet(senders, k, 0) <= top[i].count

\* ten entries of unequal counts are returned and some sender is left out
C10_Witness ==
    /\ result.op = "get_top_senders" /\ result.ret.ok
    /\ Len(result.ret.value) = 10
    /\ result.ret.value[1].count > result.ret.value[10].count
    /\ Len(get_email_metrics(mailbox).value.senders) > 10

(***************************************************************************)
(* GmailAnalytics.send_email and GmailAnalytics.reply_to_email.            *)
(* Each returns [ret, sent]: what the method returned or raised, and the   *)
(* bodies it passed to messages().send(...).execute(), in order.           *)
(***************************************************************************)
RePrefix == <<"R", "e", ":", " ">>

\* str.startswith
StartsWith(s, prefix) ==
    /\ Len(s) >= Len(prefix)
    /\ \A i \in 1..Len(prefix) : s[i] = prefix[i]

\* the id the provider gives a message it accepted
SentId == <<"s", "e", "n", "t">>

send_email(mb, to, subject, body) ==
    [ret  |-> IF mb.sendOk
              THEN Returned([message_id |-> SentId, status |-> "sent"])
              ELSE Raised("Error sending email"),
     sent |-> <<[raw |-> [to |-> to, subject |-> subject, body |-> body]]>>]

\* ReplySubject with the prefix put in front of every subject
ReplySubjectAlwaysPrefixed(original_subject) == RePrefix \o original_subject

ReplySubject(original_subject) ==
    IF ~StartsWith(original_subject, RePrefix)
    THEN RePrefix \o original_subject
    ELSE original_subject

RECURSIVE ReplyHeaders(_, _, _)
ReplyHeaders(headers, i, acc) ==
    IF i > Len(headers) THEN acc
    ELSE ReplyHeaders(headers, i + 1,
             IF headers[i].name = "From" THEN [acc EXCEPT !.to = headers[i].value]
             ELSE IF headers[i].name = "Subject"
                  THEN [acc EXCEPT !.subject = ReplySubject(headers[i].value)]
             ELSE acc)

\* MissingHeader with `and` in place of `or`
MissingHeaderBoth(to, subject) == ~Truthy(to) /\ ~Truthy(subject)

\* `if not to or not subject`
MissingHeader(to, subject) == ~Truthy(to) \/ ~Truthy(subject)

ReplyFailed(sent) == [ret |-> Raised("Error replying to email"), sent |-> sent]

reply_to_email(mb, message_id, reply_body) ==
    IF FetchRaises(mb.original) THEN ReplyFailed(<< >>)
    ELSE CHOOSE r \in
           {IF MissingHeader(h.to, h.subject) THEN ReplyFailed(<< >>)
            ELSE CHOOSE q \in
                   {IF s.ret.ok THEN s ELSE ReplyFailed(s.sent) :
                        s \in {send_email(mb, h.to, h.subject, reply_body)}} : TRUE :
                h \in {ReplyHeaders(mb.original.headers, 1, [to |-> None, subject |-> None])}} : TRUE

(***************************************************************************)
(* Inputs of the reply operations.                                         *)
(***************************************************************************)
Hello == <<"H", "e", "l", "l", "o">>
ReHello == <<"R", "e", ":", " ">> \o Hello
REHello == <<"R", "E", ":", " ">> \o Hello
ReREHello == <<"R", "e", ":", " ", "R", "E", ":", " ">> \o Hello

SubjectChars == {"R", "e", "E", ":", " "}

Subjects == SeqsUpTo(SubjectChars, MaxSubjectLen) \cup {Hello, ReHello, REHello}

\* header lists of an original message: From and Subject present, absent, empty,
\* repeated, in either order, or spelt in lower case
HeaderShapes ==
    {<< >>,
     <<Header("Date", DateMidnight)>>,
     <<Header("From", SenderA)>>,
     <<Header("Subject", Hello)>>,
     <<Header("From", SenderA), Header("Subject", Hello)>>,
     <<Header("Subject", ReHello), Header("From", SenderB)>>,
     <<Header("From", << >>), Header("Subject", Hello)>>,
     <<Header("From", SenderA), Header("Subject", << >>)>>,
     <<Header("From", SenderA), Header("From", SenderB), Header("Subject", REHello)>>,
     <<Header("From", SenderA), Header("Subject", Hello), Header("From", << >>)>>,
     <<Header("From", SenderA), Header("Subject", ReHello), Header("Subject", Hello)>>,
     <<Header("from", SenderA), Header("Subject", Hello)>>,
     <<Header("From", SenderA), Header("subject", Hello)>>}

\* the remote mailbox as the reply operations see it: what get answers for the
\* message id, and whether send accepts a message
ReplyMailbox(original, sendOk) ==
    [listOk |-> TRUE, messages |-> << >>, original |-> original,
     sendOk |-> sendOk, isReply |-> FALSE]

ShapeMailboxes ==
    {ReplyMailbox(original, sendOk) :
        original \in {Msg(h, 100) : h \in HeaderShapes} \cup {MsgHttpError, MsgNoHeaders},
        sendOk \in BOOLEAN}

SubjectMailboxes ==
    {ReplyMailbox(Msg(<<Header("From", SenderA), Header("Subject", s)>>, 100), TRUE) :
        s \in Subjects}

MessageIds == {<<"m", "1">>}

Bodies == {<< >>, <<"o", "k">>}

(***************************************************************************)
(* SpecReply: send_email and reply_to_email called on the client; a reply  *)
(* the provider accepted can come back as the next original.               *)
(***************************************************************************)
InitReply ==
    /\ FacadeIdle
    /\ mailbox \in ShapeMailboxes \cup SubjectMailboxes
    /\ outbox = << >>
    /\ result = NoResult

CallSendEmail ==
    \E to \in {SenderA, << >>} : \E subject \in {Hello, << >>} : \E body \in Bodies :
        /\ result' = [op |-> "send_email", ret |-> send_email(mailbox, to, subject, body).ret]
        /\ outbox' = send_email(mailbox, to, subject, body).sent
        /\ UNCHANGED <<tokens, issued, nRefresh, mailbox, depends, response>>

CallReplyToEmail ==
    \E message_id \in MessageIds : \E reply_body \in Bodies :
        /\ result' = [op |-> "reply_to_email",
                      ret |-> reply_to_email(mailbox, message_id, reply_body).ret]
        /\ outbox' = reply_to_email(mailbox, message_id, reply_body).sent
        /\ UNCHANGED <<tokens, issued, nRefresh, mailbox, depends, response>>

\* the correspondent answers with the reply just sent to them quoted as is:
\* the next original carries the subject the reply went out with
ReplyComesBack ==
    /\ result.op = "reply_to_email"
    /\ result.ret.ok
    /\ mailbox' = [mailbox EXCEPT
                      !.original = Msg(<<Header("From", outbox[1].raw.to),
                                         Header("Subject", outbox[1].raw.subject)>>, 100),
                      !.isReply = TRUE]
    /\ result' = NoResult
    /\ outbox' = << >>
    /\ UNCHANGED <<tokens, issued, nRefresh, depends, response>>

NextReply == CallSendEmail \/ CallReplyToEmail \/ ReplyComesBack

SpecReply == InitReply /\ [][NextReply]_vars

\* the value of the last header of that name, None without one
LastHeader(headers, name) ==
    IF \E i \in DOMAIN headers : headers[i].name = name
    THEN headers[SetMax({i \in DOMAIN headers : headers[i].name = name})].value
    ELSE None

\* C9: the subject reply_to_email passes to send_email is the original subject s
\* when s starts with the case-sensitive literal "Re: " and "Re: " followed by s
\* otherwise ("Hello" gives "Re: Hello", "Re: Hello" stays, "RE: Hello" gives
\* "Re: RE: Hello"); replying to a message that carries a derived subject leaves
\* the subject as it is.
C9_ReplySubject ==
    (result.op = "reply_to_email" /\ outbox # << >>) =>
        LET s == LastHeader(mailbox.original.headers, "Subject")
            t == outbox[1].raw.subject
            prefixed == Len(s) >= 4 /\ SubSeq(s, 1, 4) = <<"R", "e", ":", " ">>
        IN  /\ Len(outbox) = 1
            /\ prefixed => t = s
            /\ ~prefixed => t = <<"R", "e", ":", " ">> \o s
            /\ s = Hello => t = ReHello
            /\ s = ReHello => t = ReHello
            /\ s = REHello => t = ReREHello
            /\ mailbox.isReply => t = s

\* the reply to "RE: Hello" came back and was replied to again
C9_Witness ==
    /\ result.op = "reply_to_email"
    /\ mailbox.isReply
    /\ outbox # << >>
    /\ LastHeader(mailbox.original.headers, "Subject") = ReREHello
    /\ outbox[1].raw.subject = ReREHello

(***************************************************************************)
(* backend/main.py: the OAuth provider as the service sees it.             *)
(* An access token names the grant (the successful code exchange) it was   *)
(* minted for and the refresh that minted it (0: the exchange itself); a   *)
(* refresh token names its grant.                                          *)
(***************************************************************************)
AccessToken(grant, gen) == <<"access", grant, gen>>

RefreshToken(grant) == <<"refresh", grant>>

TOKEN_URI == "https://oauth2.googleapis.com/token"
CLIENT_ID == "GOOGLE_CLIENT_ID"
CLIENT_SECRET == "GOOGLE_CLIENT_SECRET"
SCOPES == <<"gmail.readonly", "gmail.modify", "gmail.send">>

\* flow.credentials after the grant-th successful flow.fetch_token(code)
Granted(grant, offline) ==
    [token |-> AccessToken(grant, 0),
     refresh_token |-> IF offline THEN RefreshToken(grant) ELSE None,
     token_uri |-> TOKEN_URI, client_id |-> CLIENT_ID,
     client_secret |-> CLIENT_SECRET, scopes |-> SCOPES]

TokenData(credentials) ==
    [token |-> credentials.token,
     refresh_token |-> credentials.refresh_token,
     token_uri |-> credentials.token_uri,
     client_id |-> credentials.client_id,
     client_secret |-> credentials.client_secret,
     scopes |-> credentials.scopes]

\* StoreTokenData keeping the access token of an entry already stored
StoreTokenDataMerged(tk, token_data) ==
    IF "current_user" \in DOMAIN tk
    THEN [k \in {"current_user"} |-> [token_data EXCEPT !.token = tk["current_user"].token]]
    ELSE [k \in {"current_user"} |-> token_data]

\* tokens['current_user'] = token_data
StoreTokenData(tk, token_data) ==
    [k \in DOMAIN tk \cup {"current_user"} |->
        IF k = "current_user" THEN token_data ELSE tk[k]]

\* StoreToken writing a fresh entry that holds the access token alone
StoreTokenAlone(tk, token) ==
    [tk EXCEPT !["current_user"] = [@ EXCEPT !.token = token, !.refresh_token = None]]

\* tokens['current_user']['token'] = credentials.token
StoreToken(tk, token) == [tk EXCEPT !["current_user"].token = token]

\* Credentials(token=..., refresh_token=..., ...) from the stored token_data
Credentials(token_data) ==
    [token |-> token_data.token,
     refresh_token |-> token_data.refresh_token,
     token_uri |-> token_data.token_uri,
     client_id |-> token_data.client_id,
     client_secret |-> token_data.client_secret,
     scopes |-> token_data.scopes]

\* credentials.valid, given what credentials.expired answers
Valid(credentials, expired) == credentials.token # None /\ ~expired

\* Unauthorized answering 500
UnauthorizedAs500(tk) == [status |-> 500, returned |-> FALSE, tokens |-> tk]

\* HTTPException(401): raised for an empty store, and by the except clause for
\* whatever else was raised
Unauthorized(tk) == [status |-> 401, returned |-> FALSE, tokens |-> tk]

\* `return credentials`; usable: the provider still honours the access token
Yield(credentials, usable, tk) ==
    [status |-> 200, returned |-> TRUE, credentials |-> credentials,
     usable |-> usable, tokens |-> tk]

\* The dependency, run on the store tk.  expired: what credentials.expired answers.
\* refreshed: the access token credentials.refresh(Request()) obtains, None when
\* the call raises.  Yields the outcome and the store it leaves.
get_credentials(tk, expired, refreshed) ==
    IF "current_user" \notin DOMAIN tk THEN Unauthorized(tk)
    ELSE CHOOSE r \in
           {IF ~Valid(credentials, expired)
            THEN IF expired /\ Truthy(credentials.refresh_token)
                 THEN IF refreshed = None THEN Unauthorized(tk)
                      ELSE Yield([credentials EXCEPT !.token = refreshed], TRUE,
                                 StoreToken(tk, refreshed))
                 ELSE Yield(credentials, FALSE, tk)
            ELSE Yield(credentials, TRUE, tk) :
                credentials \in {Credentials(tk["current_user"])}} : TRUE

\* what the token endpoint answers to a refresh with the stored refresh token
Refreshed(tk, n, refreshOk) ==
    IF /\ refreshOk
       /\ n < MaxRefreshes
       /\ "current_user" \in DOMAIN tk
       /\ tk["current_user"].refresh_token # None
    THEN AccessToken(tk["current_user"].refresh_token[2], n + 1)
    ELSE None

(***************************************************************************)
(* backend/main.py: the endpoints.  One action is one request, from its    *)
(* dependency to its response.  The second handler registered for          *)
(* /auth/google/callback (main.py 157-167) is never dispatched to: the     *)
(* router takes the first route that matches.                              *)
(***************************************************************************)
RemoteMailbox(listOk, messages, original, sendOk) ==
    [listOk |-> listOk, messages |-> messages, original |-> original,
     sendOk |-> sendOk, isReply |-> FALSE]

NoMailbox == RemoteMailbox(TRUE, << >>, MsgHttpError, TRUE)

AnalyticsMessages ==
    {<< >>,
     <<PlainMsg(SenderA, DateMidnight, 100)>>,
     <<PlainMsg(SenderA, DateLate, 100), PlainMsg(SenderB, DateGMT, 5242880)>>,
     <<PlainMsg(SenderA, DateLate, 100), MsgHttpError>>,
     <<PlainMsg(SenderA, DateLate, 100), MsgNoHeaders, PlainMsg(SenderB, DateLate, 100)>>,
     <<MsgHttpError, PlainMsg(SenderA, DateLate, 100)>>}

AnalyticsMailboxes ==
    {RemoteMailbox(TRUE, messages, MsgHttpError, TRUE) : messages \in AnalyticsMessages}
        \cup {RemoteMailbox(FALSE, << >>, MsgHttpError, TRUE)}

\* the originals /api/reply-email is asked to reply to
ReplyOriginals ==
    {MsgHttpError,
     Msg(<< >>, 100),
     Msg(<<Header("From", SenderA)>>, 100),
     Msg(<<Header("Subject", Hello)>>, 100),
     Msg(<<Header("From", SenderA), Header("Subject", Hello)>>, 100),
     Msg(<<Header("From", << >>), Header("Subject", Hello)>>, 100),
     Msg(<<Header("From", SenderA), Header("From", SenderB), Header("Subject", REHello)>>, 100),
     Msg(<<Header("From", SenderA), Header("Subject", ReHello), Header("From", << >>)>>, 100)}

ReplyEmailMailboxes ==
    {RemoteMailbox(TRUE, << >>, original, TRUE) : original \in ReplyOriginals}
        \cup {RemoteMailbox(TRUE, << >>,
                  Msg(<<Header("From", SenderA), Header("Subject", Hello)>>, 100), FALSE)}

\* the refresh call's outcome is an input only of a request that makes the call
RefreshOutcomes(expired) == IF expired THEN BOOLEAN ELSE {TRUE}

\* with an access token the provider no longer honours every remote call fails
Seen(mb, usable) ==
    IF usable THEN mb
    ELSE [mb EXCEPT !.listOk = FALSE, !.original = MsgHttpError, !.sendOk = FALSE]

Ok(endpoint, body) == [endpoint |-> endpoint, status |-> 200, body |-> body]

\* raise HTTPException(status_code=...)
Fail(endpoint, status_code) == [endpoint |-> endpoint, status |-> status_code]

Init ==
    /\ FacadeIdle
    /\ mailbox = NoMailbox
    /\ outbox = << >>
    /\ result = NoResult

Root ==
    /\ response' = Ok("/", [message |-> "Welcome to Gmail Analytics API"])
    /\ depends' = NoDepends
    /\ outbox' = << >>
    /\ result' = NoResult
    /\ UNCHANGED <<tokens, issued, nRefresh, mailbox>>

GoogleAuth ==
    /\ response' = Ok("/auth/google", [authorization_url |-> "authorization_url"])
    /\ depends' = NoDepends
    /\ outbox' = << >>
    /\ result' = NoResult
    /\ UNCHANGED <<tokens, issued, nRefresh, mailbox>>

\* GET /auth/google/callback: flow.fetch_token(code) succeeds, granting with or
\* without a refresh token, or raises
Callback ==
    /\ \E exchanged \in BOOLEAN : \E offline \in BOOLEAN :
        IF exchanged /\ Len(issued) < MaxExchanges
        THEN /\ issued' = Append(issued, Granted(Len(issued) + 1, offline))
             /\ tokens' = StoreTokenData(tokens, TokenData(Granted(Len(issued) + 1, offline)))
             /\ response' = Ok("/auth/google/callback",
                               [access_token |-> Granted(Len(issued) + 1, offline).token,
                                refresh_token |-> Granted(Len(issued) + 1, offline).refresh_token])
        ELSE /\ response' = Fail("/auth/google/callback", 400)
             /\ UNCHANGED <<tokens, issued>>
    /\ depends' = NoDepends
    /\ outbox' = << >>
    /\ result' = NoResult
    /\ UNCHANGED <<nRefresh, mailbox>>

\* Depends(get_credentials) of a request arriving at the store as it stands
Depends(expired, refreshOk) ==
    get_credentials(tokens, expired, Refreshed(tokens, nRefresh, refreshOk))

\* the part of a request every endpoint with the dependency shares
Depending(expired, refreshOk) ==
    /\ tokens' = Depends(expired, refreshOk).tokens
    /\ nRefresh' = IF Depends(expired, refreshOk).tokens # tokens THEN nRefresh + 1 ELSE nRefresh
    /\ depends' = [called |-> TRUE, expired |-> expired, before |-> tokens,
                   yield |-> Depends(expired, refreshOk)]
    /\ UNCHANGED issued

\* the request ends in the dependency: the handler body does not run
Rejected(endpoint, dep) ==
    /\ response' = Fail(endpoint, dep.status)
    /\ outbox' = << >>
    /\ result' = NoResult
    /\ UNCHANGED mailbox

VerifyToken ==
    \E expired \in BOOLEAN : \E refreshOk \in RefreshOutcomes(expired) : \E profileOk \in BOOLEAN :
        /\ Depending(expired, refreshOk)
        /\ \E dep \in {Depends(expired, refreshOk)} :
            IF ~dep.returned THEN Rejected("/api/verify-token", dep)
            ELSE /\ response' = IF dep.usable /\ profileOk
                                THEN Ok("/api/verify-token", [valid |-> TRUE])
                                ELSE Fail("/api/verify-token", 401)
                 /\ outbox' = << >>
                 /\ result' = NoResult
                 /\ UNCHANGED mailbox

Analytics ==
    \E expired \in BOOLEAN : \E refreshOk \in RefreshOutcomes(expired) : \E mb \in AnalyticsMailboxes :
        /\ Depending(expired, refreshOk)
        /\ \E dep \in {Depends(expired, refreshOk)} :
            IF ~dep.returned THEN Rejected("/api/analytics", dep)
            ELSE \E metrics \in {get_email_metrics(Seen(mb, dep.usable))} :
                 /\ mailbox' = Seen(mb, dep.usable)
                 /\ result' = [op |-> "get_email_metrics", ret |-> metrics]
                 /\ outbox' = << >>
                 /\ response' = IF metrics.ok THEN Ok("/api/analytics", metrics.value)
                                ELSE Fail("/api/analytics", 500)

SendEmail ==
    \E expired \in BOOLEAN : \E refreshOk \in RefreshOutcomes(expired) : \E sendOk \in BOOLEAN :
    \E body \in {<<"o", "k">>} :
        /\ Depending(expired, refreshOk)
        /\ \E dep \in {Depends(expired, refreshOk)} :
            IF ~dep.returned THEN Rejected("/api/send-email", dep)
            ELSE \E r \in {send_email(Seen(RemoteMailbox(TRUE, << >>, MsgHttpError, sendOk),
                                            dep.usable), SenderA, Hello, body)} :
                 /\ mailbox' = Seen(RemoteMailbox(TRUE, << >>, MsgHttpError, sendOk), dep.usable)
                 /\ result' = [op |-> "send_email", ret |-> r.ret]
                 /\ outbox' = r.sent
                 /\ response' = IF r.ret.ok THEN Ok("/api/send-email", r.ret.value)
                                ELSE Fail("/api/send-email", 500)

ReplyEmail ==
    \E expired \in BOOLEAN : \E refreshOk \in RefreshOutcomes(expired) : \E mb \in ReplyEmailMailboxes :
    \E message_id \in MessageIds : \E body \in {<<"o", "k">>} :
        /\ Depending(expired, refreshOk)
        /\ \E dep \in {Depends(expired, refreshOk)} :
            IF ~dep.returned THEN Rejected("/api/reply-email", dep)
            ELSE \E r \in {reply_to_email(Seen(mb, dep.usable), message_id, body)} :
                 /\ mailbox' = Seen(mb, dep.usable)
                 /\ result' = [op |-> "reply_to_email", ret |-> r.ret]
                 /\ outbox' = r.sent
                 /\ response' = IF r.ret.ok THEN Ok("/api/reply-email", r.ret.value)
                                ELSE Fail("/api/reply-email", 500)

Next ==
    \/ Root
    \/ GoogleAuth
    \/ Callback
    \/ VerifyToken
    \/ Analytics
    \/ SendEmail
    \/ ReplyEmail

Spec == Init /\ [][Next]_vars

(***************************************************************************)
(* Claims about the endpoints and the token store (Spec).                  *)
(***************************************************************************)
Protected == {"/api/verify-token", "/api/analytics", "/api/send-email", "/api/reply-email"}

Stored == tokens["current_user"]

OtherFields == {"refresh_token", "token_uri", "client_id", "client_secret", "scopes"}

\* C1: the store is empty exactly until the first successful callback, and a request
\* made while it is empty is answered 401 without a body when it goes to
\* /api/verify-token, /api/analytics, /api/send-email or /api/reply-email; only
\* /, /auth/google and /auth/google/callback answer 200 to such a request.
C1_EmptyStoreRejects ==
    [][/\ (issued' = << >>) = (DOMAIN tokens' = {})
       /\ DOMAIN tokens = {} =>
            /\ response'.endpoint \in Protected =>
                 /\ response'.status = 401
                 /\ "body" \notin DOMAIN response'
                 /\ outbox' = << >>
                 /\ result' = NoResult
            /\ response'.status = 200 =>
                 response'.endpoint \in {"/", "/auth/google", "/auth/google/callback"}]_vars

\* /api/reply-email was asked before any callback and answered 401
C1_Witness ==
    /\ DOMAIN tokens = {}
    /\ response.endpoint = "/api/reply-email"
    /\ response.status = 401
    /\ depends.called
    /\ DOMAIN depends.before = {}

\* C2: a request whose stored credential is expired and has no refresh token is
\* answered 401 by get_credentials, which does not return the credential to the
\* endpoint handler.
C2_ExpiredUnrefreshableRejected ==
    (/\ depends.called
     /\ DOMAIN depends.before # {}
     /\ depends.expired
     /\ depends.before["current_user"].refresh_token = None)
        => (response.status = 401 /\ ~depends.yield.returned)

\* C3: the store holds at most one credential, none before the first successful
\* callback and one ever after; its refresh token, token endpoint, client id, client
\* secret and scopes are those of the most recent successful exchange; a successful
\* callback stores exactly what it was granted, and any other change of the store
\* is a refresh, which changes the access token alone.
C3_StoreFollowsLastExchange ==
    /\ [](/\ DOMAIN tokens \subseteq {"current_user"}
          /\ issued = << >> => DOMAIN tokens = {}
          /\ issued # << >> =>
                /\ DOMAIN tokens = {"current_user"}
                /\ \A f \in OtherFields : Stored[f] = issued[Len(issued)][f])
    /\ [][/\ DOMAIN tokens # {} => DOMAIN tokens' # {}
          /\ issued' # issued =>
                /\ Len(issued') = Len(issued) + 1
                /\ tokens' = [k \in {"current_user"} |-> issued'[Len(issued')]]
          /\ (issued' = issued /\ tokens' # tokens) =>
                /\ DOMAIN tokens = {"current_user"}
                /\ nRefresh' = nRefresh + 1
                /\ tokens'["current_user"].token # Stored.token
                /\ \A f \in OtherFields : tokens'["current_user"][f] = Stored[f]]_vars

\* a second exchange replaced the stored credential, which was then refreshed
C3_Witness ==
    /\ Len(issued) = 2
    /\ DOMAIN tokens = {"current_user"}
    /\ Stored.refresh_token = RefreshToken(2)
    /\ Stored.token = AccessToken(2, 1)

\* the credentials one grant can account for: the one exchanged, and each refresh of it
OfOneGrant(grant) ==
    {issued[grant]} \cup
    {[issued[grant] EXCEPT !.token = AccessToken(grant, gen)] :
        gen \in IF issued[grant].refresh_token = None THEN {} ELSE 1..nRefresh}

FetchFailedAt == {i \in DOMAIN mailbox.messages : i <= 500 /\ FetchRaises(mailbox.messages[i])}

\* C7: when the list call or the fetch of any listed message fails, also after
\* messages were aggregated, get_email_metrics returns no report, /api/analytics
\* answers 500 without a body, and the store is as the credential dependency of the
\* request left it (as before the request, unless that dependency refreshed).
C7_NoPartialReport ==
    (/\ response.endpoint = "/api/analytics"
     /\ depends.yield.returned
     /\ ~mailbox.listOk \/ FetchFailedAt # {})
        => /\ response.status = 500
           /\ "body" \notin DOMAIN response
           /\ ~result.ret.ok
           /\ "value" \notin DOMAIN result.ret
           /\ tokens = depends.yield.tokens
           /\ ~depends.expired => tokens = depends.before

\* the second fetch failed after the first message had been aggregated
C7_Witness ==
    /\ response.endpoint = "/api/analytics"
    /\ response.status = 500
    /\ mailbox.listOk
    /\ FetchFailedAt = {2}
    /\ tokens = depends.before

ReplyFetched ==
    /\ response.endpoint = "/api/reply-email"
    /\ depends.yield.returned
    /\ ~FetchRaises(mailbox.original)

OriginalFrom == LastHeader(mailbox.original.headers, "From")

OriginalSubject == LastHeader(mailbox.original.headers, "Subject")

ReplyRefused ==
    /\ response.status = 500
    /\ ~result.ret.ok
    /\ outbox = << >>

\* C8 as stated: the reply is refused, with nothing submitted, when the original
\* has no From header or no Subject header; when it has both, exactly one message
\* is submitted, addressed to the From value.
C8_AsStated ==
    ReplyFetched =>
        IF OriginalFrom = None \/ OriginalSubject = None
        THEN ReplyRefused
        ELSE Len(outbox) = 1 /\ outbox[1].raw.to = OriginalFrom

\* C8: the reply is refused (500 from /api/reply-email), with nothing submitted,
\* when the original has no From header, or its last From header is empty, or it has
\* no Subject header; otherwise exactly one message is submitted, addressed to the
\* value of the last From header.
C8_ReplyNeedsRecipientAndSubject ==
    ReplyFetched =>
        IF OriginalFrom = None \/ OriginalFrom = << >> \/ OriginalSubject = None
        THEN ReplyRefused
        ELSE Len(outbox) = 1 /\ outbox[1].raw.to = OriginalFrom

\* an original with a Subject and an empty From was refused
C8_Witness ==
    /\ ReplyFetched
    /\ OriginalFrom = << >>
    /\ OriginalSubject # None
    /\ ReplyRefused

====
